---- MODULE Spec2Model ----
(***************************************************************************)
(* The CPF and CNPJ value types of brazil_types/types.py.                  *)
(*                                                                         *)
(* A Python string is a sequence of one-character strings.  A Python int   *)
(* (unbounded, non-negative) is the sequence of the characters of its      *)
(* decimal numeral, without leading zeros: 0 is <<"0">>.  int(s) therefore *)
(* drops leading zeros and '{0:011d}'.format(n) puts them back, so neither *)
(* is the identity.  A Python value is a record [type, val]; the outcome   *)
(* of a call is a record [raised, type, val]: the value returned, or the   *)
(* exception raised with its message.                                      *)
(***************************************************************************)
EXTENDS Integers, Sequences, FiniteSets, TLC

VARIABLES
    input,  \* the argument the caller holds for __init__, clean and validate
    self,   \* the live object: its class and its _cpf / _cnpj field
    call,   \* the last call made: its name and its argument
    ret     \* the outcome of the last call

vars == <<input, self, call, ret>>

----------------------------------------------------------------------------
(* Python values and outcomes *)

PyInt(ds) == [type |-> "int", val |-> ds]
PyStr(cs) == [type |-> "str", val |-> cs]
PyBool(b) == [type |-> "bool", val |-> IF b THEN <<"True">> ELSE <<"False">>]
PyNone == [type |-> "NoneType", val |-> << >>]

Return(v) == [raised |-> FALSE, type |-> v.type, val |-> v.val]
Raise(exc, msg) == [raised |-> TRUE, type |-> exc, val |-> msg]

Max(a, b) == IF a >= b THEN a ELSE b
Min(a, b) == IF a <= b THEN a ELSE b

DigitChars == <<"0", "1", "2", "3", "4", "5", "6", "7", "8", "9">>

\* the character class [0-9] of the regular expression
IsDigit(c) == \E k \in 1..Len(DigitChars) : DigitChars[k] = c

\* int(c) of one digit character
DigitVal(c) == CHOOSE n \in 0..9 : DigitChars[n + 1] = c

DigitChar(n) == DigitChars[n + 1]

\* s[lo:hi] of Python: 0-based, hi excluded, negative indices count from the
\* end, out-of-range indices are clamped
PySlice(s, lo, hi) ==
    LET norm(i) == IF i < 0 THEN Max(Len(s) + i, 0) ELSE Min(i, Len(s))
    IN  SubSeq(s, norm(lo) + 1, norm(hi))

\* s[i] of Python, 0-based
PyIndex(s, i) == s[i + 1]

RECURSIVE StripZeros(_)
StripZeros(s) ==
    IF Len(s) > 1 /\ Head(s) = "0" THEN StripZeros(Tail(s)) ELSE s

\* int(s) of a string: a numeral of decimal digits, else ValueError
int(s) ==
    IF Len(s) > 0 /\ \A k \in 1..Len(s) : IsDigit(s[k])
    THEN Return(PyInt(StripZeros(s)))
    ELSE Raise("ValueError",
               <<"invalid literal for int() with base 10: ", "'">> \o s \o <<"'">>)

\* re.sub('[^0-9]', '', s)
re_sub_non_digits(s) == SelectSeq(s, IsDigit)

RECURSIVE Zeros(_)
Zeros(n) == IF n <= 0 THEN << >> ELSE <<"0">> \o Zeros(n - 1)

\* '{0:0<width>d}'.format(n) of a non-negative int: padded, never cut
format_0d(n, width) == Zeros(width - Len(n.val)) \o n.val

\* str(n) of a small natural number, as '{0}'.format(n) renders it
RECURSIVE str_nat(_)
str_nat(n) ==
    IF n < 10 THEN <<DigitChar(n)>> ELSE str_nat(n \div 10) \o <<DigitChar(n % 10)>>

\* sum(list)
RECURSIVE sum(_)
sum(list) == IF list = << >> THEN 0 ELSE Head(list) + sum(Tail(list))

----------------------------------------------------------------------------
(* class CPF *)

CPF_WIDTH == 11

\* a clean that reads a string without digits as 0
CPF_clean_empty_as_zero(cpf) ==
    IF cpf.type = "str"
    THEN LET ds == re_sub_non_digits(cpf.val)
             n == int(IF ds = << >> THEN <<"0">> ELSE ds)
         IN  Return(PyStr(format_0d(n, CPF_WIDTH)))
    ELSE IF cpf.type = "int"
    THEN Return(PyStr(format_0d(cpf, CPF_WIDTH)))
    ELSE Raise("TypeError", <<"unsupported format string passed to ">>
                             \o <<cpf.type>> \o <<".__format__">>)

CPF_clean(cpf) ==
    IF cpf.type = "str"
    THEN LET n == int(re_sub_non_digits(cpf.val))
         IN  IF n.raised THEN n ELSE Return(PyStr(format_0d(n, CPF_WIDTH)))
    ELSE IF cpf.type = "int"
    THEN Return(PyStr(format_0d(cpf, CPF_WIDTH)))
    ELSE Raise("TypeError", <<"unsupported format string passed to ">>
                             \o <<cpf.type>> \o <<".__format__">>)

\* a reduction that forgets the final mod 10
CPF_mod11_no_mod10(value) == value % 11

CPF_mod11(value) == (value % 11) % 10

CPF_validate(arg) ==
    IF arg.type = "NoneType" THEN Return(PyBool(FALSE))
    ELSE LET c == CPF_clean(arg) IN
         IF c.raised THEN c
         ELSE LET cpf == c.val
                  dig1 == CPF_mod11(sum([k \in 1..9 |->
                              LET i == k - 1 IN (i + 1) * DigitVal(PyIndex(cpf, i))]))
                  dig2 == CPF_mod11(sum([k \in 1..9 |->
                              LET i == k IN i * DigitVal(PyIndex(cpf, i))]))
              IN  Return(PyBool(PySlice(cpf, -2, Len(cpf))
                                  = str_nat(dig1) \o str_nat(dig2)))

CPF_empty(obj) ==
    LET n == int(obj.digits)
    IN  IF n.raised THEN n ELSE Return(PyBool(n.val = <<"0">>))

CPF_valid(obj) == CPF_validate(PyStr(obj.digits))

\* a format that takes any unknown code for 'f'
CPF_format_falls_back(obj, format_spec) ==
    IF format_spec = <<"r">>
    THEN Return(PyStr(obj.digits))
    ELSE LET cpf == CPF_clean(PyStr(obj.digits)).val
         IN  Return(PyStr(PySlice(cpf, 0, 3) \o <<".">> \o PySlice(cpf, 3, 6)
                          \o <<".">> \o PySlice(cpf, 6, 9) \o <<"-">>
                          \o PySlice(cpf, 9, 11)))

CPF_format(obj, format_spec) ==
    IF format_spec = << >> \/ format_spec = <<"f">>
    THEN LET c == CPF_clean(PyStr(obj.digits)) IN
         IF c.raised THEN c
         ELSE LET cpf == c.val
              IN  Return(PyStr(PySlice(cpf, 0, 3) \o <<".">> \o PySlice(cpf, 3, 6)
                               \o <<".">> \o PySlice(cpf, 6, 9) \o <<"-">>
                               \o PySlice(cpf, 9, 11)))
    ELSE IF format_spec = <<"r">>
    THEN Return(PyStr(obj.digits))
    ELSE Raise("ValueError", <<"Unknown format code ", "'">> \o format_spec
                             \o <<"'", " for object of type ", "'">> \o <<"C", "P", "F">>
                             \o <<"'">>)

CPF_dunder_format(obj, format_spec) == CPF_format(obj, format_spec)

CPF_repr(obj) ==
    LET f == CPF_dunder_format(obj, <<"f">>)
    IN  IF f.raised THEN f
        ELSE Return(PyStr(<<"<", "C", "P", "F", ":", " ">> \o f.val \o <<">">>))

CPF_str(obj) == CPF_format(obj, <<"f">>)

----------------------------------------------------------------------------
(* class CNPJ *)

CNPJ_WIDTH == 14

CNPJ_clean(cnpj) ==
    IF cnpj.type = "str"
    THEN LET n == int(re_sub_non_digits(cnpj.val))
         IN  IF n.raised THEN n ELSE Return(PyStr(format_0d(n, CNPJ_WIDTH)))
    ELSE IF cnpj.type = "int"
    THEN Return(PyStr(format_0d(cnpj, CNPJ_WIDTH)))
    ELSE Raise("TypeError", <<"unsupported format string passed to ">>
                             \o <<cnpj.type>> \o <<".__format__">>)

digitos_validacao == <<6, 5, 4, 3, 2, 9, 8, 7, 6, 5, 4, 3, 2>>

\* a reduction that tests value > 0 where the code tests value > 1
CNPJ_mod11_gt0(value) ==
    LET v == value % 11 IN IF v > 0 THEN 11 - v ELSE 0

CNPJ_mod11(value) ==
    LET v == value % 11 IN IF v > 1 THEN 11 - v ELSE 0

\* a validate that compares the first check digit only
CNPJ_validate_first_digit_only(arg) ==
    IF arg.type = "NoneType" THEN Return(PyBool(FALSE))
    ELSE LET c == CNPJ_clean(arg) IN
         IF c.raised THEN c
         ELSE LET cnpj == c.val
                  dig1 == CNPJ_mod11(sum([k \in 1..12 |->
                              LET i == k IN PyIndex(digitos_validacao, i)
                                            * DigitVal(PyIndex(cnpj, i - 1))]))
              IN  Return(PyBool(PySlice(cnpj, -2, -1) = str_nat(dig1)))

CNPJ_validate(arg) ==
    IF arg.type = "NoneType" THEN Return(PyBool(FALSE))
    ELSE LET c == CNPJ_clean(arg) IN
         IF c.raised THEN c
         ELSE LET cnpj == c.val
                  dig1 == CNPJ_mod11(sum([k \in 1..12 |->
                              LET i == k IN PyIndex(digitos_validacao, i)
                                            * DigitVal(PyIndex(cnpj, i - 1))]))
                  dig2 == CNPJ_mod11(sum([k \in 1..13 |->
                              LET i == k - 1 IN PyIndex(digitos_validacao, i)
                                                * DigitVal(PyIndex(cnpj, i))]))
              IN  Return(PyBool(PySlice(cnpj, -2, Len(cnpj))
                                  = str_nat(dig1) \o str_nat(dig2)))

\* an empty that compares the text with '0' instead of the number with 0
CNPJ_empty_compares_text(obj) == Return(PyBool(obj.digits = <<"0">>))

CNPJ_empty(obj) ==
    LET n == int(obj.digits)
    IN  IF n.raised THEN n ELSE Return(PyBool(n.val = <<"0">>))

\* an extensao one place off
CNPJ_extensao_off_by_one(obj) == Return(PyStr(PySlice(obj.digits, 9, 13)))

CNPJ_extensao(obj) == Return(PyStr(PySlice(obj.digits, 8, 12)))

CNPJ_raiz(obj) == Return(PyStr(PySlice(obj.digits, 0, 8)))

CNPJ_valid(obj) == CNPJ_validate(PyStr(obj.digits))

CNPJ_format(obj, format_spec) ==
    IF format_spec = << >> \/ format_spec = <<"f">>
    THEN LET c == CNPJ_clean(PyStr(obj.digits)) IN
         IF c.raised THEN c
         ELSE LET cnpj == c.val
              IN  Return(PyStr(PySlice(cnpj, 0, 2) \o <<".">> \o PySlice(cnpj, 2, 5)
                               \o <<".">> \o PySlice(cnpj, 5, 8) \o <<"/">>
                               \o PySlice(cnpj, 8, 12) \o <<"-">>
                               \o PySlice(cnpj, 12, 14)))
    ELSE IF format_spec = <<"r">>
    THEN Return(PyStr(obj.digits))
    ELSE Raise("ValueError", <<"Unknown format code ", "'">> \o format_spec
                             \o <<"'", " for object of type ", "'">> \o <<"C", "N", "P", "J">>
                             \o <<"'">>)

CNPJ_dunder_format(obj, format_spec) == CNPJ_format(obj, format_spec)

CNPJ_repr(obj) ==
    LET f == CNPJ_dunder_format(obj, <<"f">>)
    IN  IF f.raised THEN f
        ELSE Return(PyStr(<<"<", "C", "N", "P", "J", ":", " ">> \o f.val \o <<">">>))

CNPJ_str(obj) == CNPJ_format(obj, <<"f">>)

----------------------------------------------------------------------------
(* The two classes side by side: an object is [cls, digits], and a call on   *)
(* it, or on its class, goes to that class's method.                         *)

Classes == {"CPF", "CNPJ"}

Width(cls) == IF cls = "CPF" THEN CPF_WIDTH ELSE CNPJ_WIDTH

clean(cls, x) == IF cls = "CPF" THEN CPF_clean(x) ELSE CNPJ_clean(x)

validate(cls, x) == IF cls = "CPF" THEN CPF_validate(x) ELSE CNPJ_validate(x)

empty(obj) == IF obj.cls = "CPF" THEN CPF_empty(obj) ELSE CNPJ_empty(obj)

valid(obj) == IF obj.cls = "CPF" THEN CPF_valid(obj) ELSE CNPJ_valid(obj)

format(obj, format_spec) ==
    IF obj.cls = "CPF" THEN CPF_format(obj, format_spec)
    ELSE CNPJ_format(obj, format_spec)

dunder_format(obj, format_spec) ==
    IF obj.cls = "CPF" THEN CPF_dunder_format(obj, format_spec)
    ELSE CNPJ_dunder_format(obj, format_spec)

repr(obj) == IF obj.cls = "CPF" THEN CPF_repr(obj) ELSE CNPJ_repr(obj)

str(obj) == IF obj.cls = "CPF" THEN CPF_str(obj) ELSE CNPJ_str(obj)

\* the default argument of __init__: 0
DefaultArg == PyInt(<<"0">>)

----------------------------------------------------------------------------
(* The arguments the caller may hold.  The check digits an identifier       *)
(* should carry are computed here from the published rules, digit by digit, *)
(* independently of the validate methods above.                             *)

\* sum over k in 1..n of w[k] * d[k]
RECURSIVE WeightedSum(_, _, _)
WeightedSum(d, w, n) ==
    IF n = 0 THEN 0 ELSE w[n] * DigitVal(d[n]) + WeightedSum(d, w, n - 1)

RefCPFDigit1(d) == (WeightedSum(d, <<1, 2, 3, 4, 5, 6, 7, 8, 9>>, 9) % 11) % 10

RefCPFDigit2(d) == (WeightedSum(d, <<0, 1, 2, 3, 4, 5, 6, 7, 8, 9>>, 10) % 11) % 10

RefCNPJReduce(s) == IF s % 11 > 1 THEN 11 - (s % 11) ELSE 0

RefCNPJDigit1(d) ==
    RefCNPJReduce(WeightedSum(d, <<5, 4, 3, 2, 9, 8, 7, 6, 5, 4, 3, 2>>, 12))

RefCNPJDigit2(d) ==
    RefCNPJReduce(WeightedSum(d, <<6, 5, 4, 3, 2, 9, 8, 7, 6, 5, 4, 3, 2>>, 13))

\* the payload followed by the two check digits the rules give it
WithCheckDigits(cls, payload) ==
    IF cls = "CPF"
    THEN LET d1 == payload \o <<DigitChar(RefCPFDigit1(payload))>>
         IN  d1 \o <<DigitChar(RefCPFDigit2(d1))>>
    ELSE LET d1 == payload \o <<DigitChar(RefCNPJDigit1(payload))>>
         IN  d1 \o <<DigitChar(RefCNPJDigit2(d1))>>

\* largest digit a payload position is varied to
MaxVaryDigit == 2
\* most digits an over-long number has beyond the canonical width
MaxExtraDigits == 1
\* longest string without any digit
MaxNoDigitLen == 2

JunkChars == {".", "-", "/", " ", "a"}

\* the payloads of the identifiers of the doctests: 581.194.436-59 and
\* 58.414.462/0001-35
DocPayload(cls) ==
    IF cls = "CPF" THEN <<"5", "8", "1", "1", "9", "4", "4", "3", "6">>
    ELSE <<"5", "8", "4", "1", "4", "4", "6", "2", "0", "0", "0", "1">>

SeedPayloads(cls) == {Zeros(Width(cls) - 2), DocPayload(cls)}

Payloads(cls) ==
    {[p EXCEPT ![k] = DigitChar(v)] :
        p \in SeedPayloads(cls), k \in 1..(Width(cls) - 2), v \in 0..MaxVaryDigit}

\* id and every identifier that differs from it in one check digit
CheckDigitVariants(id) ==
    {[id EXCEPT ![k] = DigitChar(v)] : k \in {Len(id) - 1, Len(id)}, v \in 0..9}

SeedIds(cls) == {WithCheckDigits(cls, p) : p \in SeedPayloads(cls)}

Identifiers(cls) ==
    UNION {CheckDigitVariants(WithCheckDigits(cls, p)) : p \in Payloads(cls)}

\* the canonical punctuation, as a caller types it
Punctuated(cls, id) ==
    IF cls = "CPF"
    THEN SubSeq(id, 1, 3) \o <<".">> \o SubSeq(id, 4, 6) \o <<".">>
         \o SubSeq(id, 7, 9) \o <<"-">> \o SubSeq(id, 10, 11)
    ELSE SubSeq(id, 1, 2) \o <<".">> \o SubSeq(id, 3, 5) \o <<".">>
         \o SubSeq(id, 6, 8) \o <<"/">> \o SubSeq(id, 9, 12) \o <<"-">>
         \o SubSeq(id, 13, 14)

\* every string of at most n characters of chars
RECURSIVE StringsUpTo(_, _)
StringsUpTo(chars, n) ==
    IF n = 0 THEN {<< >>}
    ELSE LET shorter == StringsUpTo(chars, n - 1)
         IN  shorter \cup {s \o <<c>> : s \in shorter, c \in chars}

\* id with one junk character put somewhere
Junked(id) ==
    {SubSeq(id, 1, k) \o <<j>> \o SubSeq(id, k + 1, Len(id)) :
        k \in 0..Len(id), j \in JunkChars}

\* the first digits of an identifier, as a shorter number
Prefixes(id) == {SubSeq(id, 1, n) : n \in 1..(Len(id) - 1)}

\* an identifier with digits put before or after it
OverLong(id) ==
    LET extra == StringsUpTo({"0", "5", "9"}, MaxExtraDigits) \ {<< >>}
    IN  {id \o e : e \in extra} \cup {<<"1">> \o e \o id : e \in extra}

StringInputs(cls) ==
    LET ids == SeedIds(cls) IN
    ids
    \cup {Punctuated(cls, id) : id \in ids}
    \cup UNION {Junked(id) : id \in ids}
    \cup UNION {Prefixes(id) : id \in ids}
    \cup UNION {OverLong(id) : id \in ids}
    \cup StringsUpTo(JunkChars, MaxNoDigitLen)

IntInputs(cls) ==
    LET ids == SeedIds(cls) IN
    {StripZeros(s) :
        s \in Identifiers(cls) \cup UNION {Prefixes(id) : id \in ids}
              \cup UNION {OverLong(id) : id \in ids}}

Inputs(cls) ==
    {PyNone} \cup {PyInt(n) : n \in IntInputs(cls)}
             \cup {PyStr(s) : s \in StringInputs(cls)}

FormatSpecs == {<< >>, <<"f">>, <<"r">>, <<"x">>, <<"F">>, <<"d">>, <<"f", "r">>}

----------------------------------------------------------------------------
(* The state machine: an object is constructed with the default argument,   *)
(* and the caller then makes any calls on it and on its class.              *)

Init ==
    \E cls \in Classes :
        /\ input \in Inputs(cls)
        /\ self = [cls |-> cls, digits |-> clean(cls, DefaultArg).val]
        /\ call = [name |-> "__init__", arg |-> DefaultArg]
        /\ ret = Return(PyNone)

\* obj = CPF(x) / CNPJ(x), with the default argument or the caller's: the
\* name is bound to the new object only when __init__ returns
Call_init ==
    \E x \in {DefaultArg, input} :
        LET c == clean(self.cls, x) IN
        /\ call' = [name |-> "__init__", arg |-> x]
        /\ IF c.raised
           THEN self' = self /\ ret' = c
           ELSE self' = [self EXCEPT !.digits = c.val] /\ ret' = Return(PyNone)
        /\ UNCHANGED input

Call_empty ==
    /\ call' = [name |-> "empty", arg |-> PyNone]
    /\ ret' = empty(self)
    /\ UNCHANGED <<input, self>>

Call_valid ==
    /\ call' = [name |-> "valid", arg |-> PyNone]
    /\ ret' = valid(self)
    /\ UNCHANGED <<input, self>>

\* raiz and extensao are properties of CNPJ alone
Call_raiz ==
    /\ self.cls = "CNPJ"
    /\ call' = [name |-> "raiz", arg |-> PyNone]
    /\ ret' = CNPJ_raiz(self)
    /\ UNCHANGED <<input, self>>

Call_extensao ==
    /\ self.cls = "CNPJ"
    /\ call' = [name |-> "extensao", arg |-> PyNone]
    /\ ret' = CNPJ_extensao(self)
    /\ UNCHANGED <<input, self>>

\* a format that keeps what it computed in the object
Call_format_caches ==
    \E format_spec \in FormatSpecs :
        LET outcome == format(self, format_spec) IN
        /\ call' = [name |-> "format", arg |-> PyStr(format_spec)]
        /\ ret' = outcome
        /\ self' = IF outcome.raised THEN self
                   ELSE [self EXCEPT !.digits = outcome.val]
        /\ UNCHANGED input

Call_format ==
    \E format_spec \in FormatSpecs :
        /\ call' = [name |-> "format", arg |-> PyStr(format_spec)]
        /\ ret' = format(self, format_spec)
        /\ UNCHANGED <<input, self>>

\* '{0:<format_spec>}'.format(obj)
Call_dunder_format ==
    \E format_spec \in FormatSpecs :
        /\ call' = [name |-> "__format__", arg |-> PyStr(format_spec)]
        /\ ret' = dunder_format(self, format_spec)
        /\ UNCHANGED <<input, self>>

Call_repr ==
    /\ call' = [name |-> "__repr__", arg |-> PyNone]
    /\ ret' = repr(self)
    /\ UNCHANGED <<input, self>>

Call_str ==
    /\ call' = [name |-> "__str__", arg |-> PyNone]
    /\ ret' = str(self)
    /\ UNCHANGED <<input, self>>

\* CPF.clean(input) / CNPJ.clean(input), on the class
Call_clean ==
    /\ call' = [name |-> "clean", arg |-> input]
    /\ ret' = clean(self.cls, input)
    /\ UNCHANGED <<input, self>>

\* CPF.validate(input) / CNPJ.validate(input), on the class
Call_validate ==
    /\ call' = [name |-> "validate", arg |-> input]
    /\ ret' = validate(self.cls, input)
    /\ UNCHANGED <<input, self>>

Next ==
    \/ Call_init
    \/ Call_empty
    \/ Call_valid
    \/ Call_raiz
    \/ Call_extensao
    \/ Call_format
    \/ Call_dunder_format
    \/ Call_repr
    \/ Call_str
    \/ Call_clean
    \/ Call_validate

Spec == Init /\ [][Next]_vars

----------------------------------------------------------------------------
(* Vocabulary of the properties *)

AllDigits(s) == \A k \in 1..Len(s) : IsDigit(s[k])

HasDigit(s) == \E k \in 1..Len(s) : IsDigit(s[k])

AllZeros(s) == \A k \in 1..Len(s) : s[k] = "0"

\* sub occurs in s as a run of consecutive elements
Contains(s, sub) ==
    \E k \in 0..(Len(s) - Len(sub)) : SubSeq(s, k + 1, k + Len(sub)) = sub

True == Return(PyBool(TRUE))

False == Return(PyBool(FALSE))

ClassName(cls) == IF cls = "CPF" THEN <<"C", "P", "F">> ELSE <<"C", "N", "P", "J">>

\* an integer >= 0, or a string with at least one digit
WellFormedArg(x) == x.type = "int" \/ (x.type = "str" /\ HasDigit(x.val))

\* the check digits of d, the digit string of an identifier of class cls,
\* are the ones the published rules give
CheckDigitsMatch(cls, d) ==
    IF cls = "CPF"
    THEN /\ d[10] = DigitChar(RefCPFDigit1(d))
         /\ d[11] = DigitChar(RefCPFDigit2(d))
    ELSE /\ d[13] = DigitChar(RefCNPJDigit1(d))
         /\ d[14] = DigitChar(RefCNPJDigit2(d))

\* the places of the punctuation marks in the formatted string
Marks(cls) ==
    IF cls = "CPF" THEN [k \in {4, 8} |-> "."] @@ (12 :> "-")
    ELSE [k \in {3, 7} |-> "."] @@ (11 :> "/") @@ (16 :> "-")

\* v is DDD.DDD.DDD-DD (CPF) or DD.DDD.DDD/DDDD-DD (CNPJ)
Punctuation(cls, v) ==
    /\ Len(v) = Width(cls) + Cardinality(DOMAIN Marks(cls))
    /\ \A k \in 1..Len(v) :
          IF k \in DOMAIN Marks(cls) THEN v[k] = Marks(cls)[k] ELSE IsDigit(v[k])

\* what format(spec), __format__(spec) and __str__() (spec 'f') must give
FormatOutcomeOK(obj, spec, outcome) ==
    IF spec \in {<< >>, <<"f">>}
    THEN /\ ~outcome.raised /\ outcome.type = "str"
         /\ Punctuation(obj.cls, outcome.val)
         /\ SelectSeq(outcome.val, IsDigit) = SubSeq(obj.digits, 1, Width(obj.cls))
    ELSE IF spec = <<"r">>
    THEN outcome = Return(PyStr(obj.digits))
    ELSE /\ outcome.raised /\ outcome.type = "ValueError"
         /\ Contains(outcome.val, <<"'">> \o spec \o <<"'">>)
         /\ Contains(outcome.val, <<"'">> \o ClassName(obj.cls) \o <<"'">>)

----------------------------------------------------------------------------
(* The properties *)

\* C1: for every integer >= 0 and every string with at least one digit, clean
\* returns a string of exactly the canonical number of digits (11 for CPF, 14
\* for CNPJ), and so the digit string an object stores always has that width.
C1_CleanCanonicalWidth ==
    /\ (call.name = "clean" /\ WellFormedArg(call.arg)) =>
          /\ ~ret.raised /\ ret.type = "str"
          /\ Len(ret.val) = Width(self.cls) /\ AllDigits(ret.val)
    /\ Len(self.digits) = Width(self.cls) /\ AllDigits(self.digits)

\* C2: for every constructed value x, clean(x.format('f')) = x.format('r'), and
\* constructing from the punctuated form, from the raw digits or from the
\* integer gives the same stored digits.
C2_RoundTrip ==
    LET f == format(self, <<"f">>)
        r == format(self, <<"r">>)
    IN  /\ ~f.raised /\ ~r.raised
        /\ clean(self.cls, PyStr(f.val)) = r
        /\ clean(self.cls, PyStr(r.val)) = r
        /\ clean(self.cls, PyInt(int(r.val).val)) = r

\* C3: CPF.validate(x) is True exactly when x is not None and the 11-digit
\* string d = CPF.clean(x) has d[9] = ((sum of (i+1)*d[i], i in 0..8) mod 11)
\* mod 10 and d[10] = ((sum of i*d[i], i in 1..9) mod 11) mod 10; a payload
\* followed by the check digits so computed is valid.
C3_CPFValidate ==
    self.cls = "CPF" =>
        /\ call.name = "validate" =>
              IF call.arg = PyNone THEN ret = False
              ELSE LET c == CPF_clean(call.arg) IN
                   (~c.raised /\ Len(c.val) = CPF_WIDTH) =>
                       ret = Return(PyBool(CheckDigitsMatch("CPF", c.val)))
        /\ (call.name = "valid" /\ Len(self.digits) = CPF_WIDTH) =>
              /\ ret = Return(PyBool(CheckDigitsMatch("CPF", self.digits)))
              /\ self.digits = WithCheckDigits("CPF", SubSeq(self.digits, 1, 9))
                    => ret = True

C3_Witness ==
    /\ self.cls = "CPF" /\ call.name = "validate"
    /\ call.arg = PyInt(<<"5", "8", "1", "1", "9", "4", "4", "3", "6", "5", "9">>)
    /\ ret = True

\* C4: CNPJ.validate(x) is True exactly when x is not None and the 14-digit
\* string d = CNPJ.clean(x) has d[12] = R(sum of T[i]*d[i-1], i in 1..12) and
\* d[13] = R(sum of T[i]*d[i], i in 0..12), with T = [6,5,4,3,2,9,8,7,6,5,4,3,2]
\* and R(s) = 11 - s mod 11 if s mod 11 > 1, else 0; a payload followed by the
\* check digits so computed is valid, and CNPJ.validate(None) is False.
C4_CNPJValidate ==
    self.cls = "CNPJ" =>
        /\ call.name = "validate" =>
              IF call.arg = PyNone THEN ret = False
              ELSE LET c == CNPJ_clean(call.arg) IN
                   (~c.raised /\ Len(c.val) = CNPJ_WIDTH) =>
                       ret = Return(PyBool(CheckDigitsMatch("CNPJ", c.val)))
        /\ (call.name = "valid" /\ Len(self.digits) = CNPJ_WIDTH) =>
              /\ ret = Return(PyBool(CheckDigitsMatch("CNPJ", self.digits)))
              /\ self.digits = WithCheckDigits("CNPJ", SubSeq(self.digits, 1, 12))
                    => ret = True

C4_Witness ==
    /\ self.cls = "CNPJ" /\ call.name = "validate"
    /\ call.arg = PyStr(<<"5", "8", ".", "4", "1", "4", ".", "4", "6", "2", "/",
                          "0", "0", "0", "1", "-", "3", "5">>)
    /\ ret = True

\* C5: for both classes empty is True exactly when the stored digits are all
\* zeros, every empty value is valid, and the value constructed with no
\* argument is empty (hence valid).
C5_EmptyIsValid ==
    /\ call.name = "empty" => ret = Return(PyBool(AllZeros(self.digits)))
    /\ (call.name = "valid" /\ AllZeros(self.digits)) => ret = True
    /\ (call.name = "__init__" /\ call.arg = DefaultArg) =>
          AllZeros(self.digits) /\ Len(self.digits) = Width(self.cls)

C5_Witness ==
    /\ call.name = "valid" /\ AllZeros(self.digits) /\ ret = True

\* C6: for every valid identifier of canonical width, of either class, putting
\* any other digit in place of one of its two check digits gives an identifier
\* that validate / valid reports False.
C6_CheckDigitChangeInvalid ==
    LET W == Width(self.cls)
        others(d) == {[d EXCEPT ![k] = DigitChar(v)] :
                         k \in {W - 1, W}, v \in 0..9} \ {d}
    IN  /\ (call.name = "validate" /\ ret = True) =>
              LET d == clean(self.cls, call.arg).val IN
              Len(d) = W =>
                  \A e \in others(d) :
                      /\ validate(self.cls, PyStr(e)) = False
                      /\ validate(self.cls, PyInt(StripZeros(e))) = False
        /\ (call.name = "valid" /\ ret = True /\ Len(self.digits) = W) =>
              \A e \in others(self.digits) :
                  valid([self EXCEPT !.digits = e]) = False

C6_Witness ==
    /\ call.name = "valid" /\ ret = True /\ ~AllZeros(self.digits)
    /\ Len(self.digits) = Width(self.cls)

\* C7: format(spec) gives the punctuated form for spec '' and 'f', the stored
\* digits for 'r', and for any other spec raises ValueError with a message
\* naming the spec and the class; str() and the __format__ hook go the same way.
C7_Format ==
    /\ call.name \in {"format", "__format__"} =>
          FormatOutcomeOK(self, call.arg.val, ret)
    /\ call.name = "__str__" => FormatOutcomeOK(self, <<"f">>, ret)

C7_Witness ==
    /\ call.name = "format" /\ call.arg = PyStr(<<"f", "r">>)
    /\ ret.raised /\ ~AllZeros(self.digits)

\* C8 as stated: a string without any digit cleans to the all-zero value of
\* canonical width instead of failing.
C8_NoDigitsCleanToZero ==
    (call.name = "clean" /\ call.arg.type = "str" /\ ~HasDigit(call.arg.val)) =>
        ret = Return(PyStr(Zeros(Width(self.cls))))

\* C8 amended: given a string, clean (and so the constructor and validate)
\* drops every non-digit character and reads the rest as a base-10 integer;
\* when nothing is left (a string without any digit, the empty string
\* included) the call raises ValueError and returns nothing; when all the
\* digits left are zeros, clean returns the all-zero value.
C8_NoDigitsRaise ==
    (call.name \in {"clean", "validate", "__init__"} /\ call.arg.type = "str") =>
        LET ds == SelectSeq(call.arg.val, IsDigit) IN
        IF ds = << >>
        THEN ret.raised /\ ret.type = "ValueError"
        ELSE /\ ~ret.raised
             /\ call.name = "clean" =>
                   /\ ret.type = "str" /\ AllDigits(ret.val)
                   /\ Len(ret.val) = Max(Width(self.cls), Len(StripZeros(ds)))
                   /\ StripZeros(ret.val) = StripZeros(ds)
                   /\ AllZeros(ds) => ret.val = Zeros(Width(self.cls))

C8_Witness ==
    /\ call.name = "clean" /\ call.arg = PyStr(<<".", "-">>)
    /\ ret.raised /\ ret.type = "ValueError"

\* C9: for a CNPJ of canonical width, raiz is the first 8 stored digits and
\* extensao the next 4, so format('r') = raiz + extensao + check digits and
\* format('f') = raiz[0:2].raiz[2:5].raiz[5:8]/extensao-check digits, whether
\* the value is valid or not.
C9_RaizExtensao ==
    (self.cls = "CNPJ" /\ Len(self.digits) = CNPJ_WIDTH) =>
        LET raiz == SubSeq(self.digits, 1, 8)
            extensao == SubSeq(self.digits, 9, 12)
            check == SubSeq(self.digits, 13, 14)
        IN  /\ call.name = "raiz" => ret = Return(PyStr(raiz))
            /\ call.name = "extensao" => ret = Return(PyStr(extensao))
            /\ (call.name = "format" /\ call.arg.val = <<"r">>) =>
                  ret.val = CNPJ_raiz(self).val \o CNPJ_extensao(self).val \o check
            /\ (call.name = "format" /\ call.arg.val = <<"f">>) =>
                  ret.val = SubSeq(CNPJ_raiz(self).val, 1, 2) \o <<".">>
                            \o SubSeq(CNPJ_raiz(self).val, 3, 5) \o <<".">>
                            \o SubSeq(CNPJ_raiz(self).val, 6, 8) \o <<"/">>
                            \o CNPJ_extensao(self).val \o <<"-">> \o check

C9_Witness ==
    /\ self.cls = "CNPJ" /\ call.name = "extensao"
    /\ ret = Return(PyStr(<<"0", "0", "0", "1">>))
    /\ CNPJ_valid(self) = False

\* C10: after construction no public operation changes the stored digits, so
\* a call repeated gives the same result.
C10_Immutable ==
    [][call'.name # "__init__" =>
          /\ self' = self
          /\ call' = call => ret' = ret]_vars

C10_Witness ==
    /\ call.name = "__format__" /\ ret.raised
    /\ ~AllZeros(self.digits) /\ Len(self.digits) = Width(self.cls)

====
